---- MODULE Spec2Model ----
(***************************************************************************)
(* Model of src/src/windows_msvc.rs: discovery of the resource compiler    *)
(* (find_windows_sdk_tool_impl and its six probes), the once-only          *)
(* environment augmentation (include_windows_10_kits) and the invocation   *)
(* of the tool (ResourceCompiler::compile_resource).                       *)
(*                                                                         *)
(* A path (PathBuf) is a sequence of components, the first one being the   *)
(* drive prefix with its root.  A string that the code inspects by its     *)
(* characters (TARGET) is a sequence of one-character strings.  An         *)
(* Option<T> is a set with at most one element: None is {}, Some(x) is {x}.*)
(***************************************************************************)
EXTENDS Naturals, Sequences, FiniteSets

\* ---------------------------------------------------------------- bounds

\* Largest number of threads of the process that call compile_resource.
NThreads == 2

\* Largest number of installations and links the filesystem holds.
MaxObjects == 2

Threads == 1 .. NThreads

\* ---------------------------------------------------------------- Option

None == {}

Some(x) == {x}

Unwrap(o) == CHOOSE x \in o : TRUE

\* ---------------------------------------------------------------- paths

\* PathBuf::push of a relative path.
Push(p, rel) == p \o rel

\* PathBuf::pop: drops the last component; a bare prefix/root is left alone.
Pop(p) == IF Len(p) > 1 THEN SubSeq(p, 1, Len(p) - 1) ELSE p

\* Path::file_name: the last component, absent for a root and for "..".
FileName(p) ==
    IF Len(p) > 1 /\ p[Len(p)] # ".." THEN Some(p[Len(p)]) ELSE None

IsPrefix(p, q) == Len(p) <= Len(q) /\ SubSeq(q, 1, Len(p)) = p

\* str::starts_with
starts_with(s, pat) == Len(s) >= Len(pat) /\ SubSeq(s, 1, Len(pat)) = pat

\* ---------------------------------------------------------------- inputs

X86_64 == <<"x", "8", "6", "_", "6", "4">>

\* The values TARGET is drawn from: two real triples and a string one
\* character short of the 64-bit prefix.
TripleTail ==
    <<"-", "p", "c", "-", "w", "i", "n", "d", "o", "w", "s", "-", "m", "s", "v", "c">>

Targets ==
    { X86_64 \o TripleTail,
      <<"i", "6", "8", "6">> \o TripleTail,
      <<"x", "8", "6", "_", "6">> }

InstalledRoots == "SOFTWARE\\Microsoft\\Windows Kits\\Installed Roots"

MicrosoftSDKs == "SOFTWARE\\Microsoft\\Microsoft SDKs\\Windows"

\* The registry values the code reads, as <<subkey, value name>>.
RegNames ==
    { <<InstalledRoots, "KitsRoot10">>, <<InstalledRoots, "KitsRoot81">>,
      <<InstalledRoots, "KitsRoot">>, <<MicrosoftSDKs, "CurrentInstallFolder">> }

\* The directory each registry value names when it is present.
RootOf(name) ==
    CASE name = "KitsRoot10" -> <<"C:", "Kits", "10">>
      [] name = "KitsRoot81" -> <<"C:", "Kits", "8.1">>
      [] name = "KitsRoot" -> <<"C:", "Kits", "8.0">>
      [] OTHER -> <<"C:", "SDKs", "v7.1">>

Tool == "rc.exe"

\* A directory name that is not valid Unicode (OsString::into_string fails).
NonUnicode == {"v3?"}

\* What may be installed, each a set of files: the tools of a kit (for both
\* architectures) directly under <root>/bin, the 32-bit and the 64-bit tool
\* of the legacy SDK, the tools of a version of the Windows 10 kit under
\* <KitsRoot10>/bin/<version>, and a file that is no tool under
\* <KitsRoot10>/bin.
Installations ==
    { { Push(RootOf(k), <<"bin", a, Tool>>) : a \in {"x86", "x64"} } :
        k \in {"KitsRoot10", "KitsRoot81", "KitsRoot"} }
    \cup { { Push(RootOf("CurrentInstallFolder"), sub \o <<Tool>>) } :
             sub \in {<<"Bin">>, <<"Bin", "x64">>} }
    \cup { { Push(RootOf("KitsRoot10"), <<"bin", v, a, Tool>>) : a \in {"x86", "x64"} } :
             v \in {"v1", "v2", "v3?"} }
    \cup { { Push(RootOf("KitsRoot10"), <<"bin", "notes.txt">>) } }

\* Symbolic links: <KitsRoot10>/bin/latest -> <KitsRoot10>/bin/v1, and the
\* 64-bit tool of version v2 as a link to that of a version v0, which is
\* never installed (the link dangles).
LinkPool ==
    { <<Push(RootOf("KitsRoot10"), <<"bin", "latest">>),
        Push(RootOf("KitsRoot10"), <<"bin", "v1">>)>>,
      <<Push(RootOf("KitsRoot10"), <<"bin", "v2", "x64", Tool>>),
        Push(RootOf("KitsRoot10"), <<"bin", "v0", "x64", Tool>>)>> }

\* What VsFindResult::search() may give: nothing, a result without an SDK
\* root, or a result with an SDK root (a versioned Lib directory of the
\* Windows 10 kit, or a bare drive root, which has no final segment).
VsResults ==
    { None, Some([windows_sdk_root |-> None]),
      Some([windows_sdk_root |-> Some(<<"C:", "Kits", "10", "Lib", "v1">>)]),
      Some([windows_sdk_root |-> Some(<<"C:">>)]) }

\* Directory enumeration orders of fs::read_dir, as orders of the names.
CanonicalOrder == <<"latest", "notes.txt", "v1", "v2", "v3?", "x64", "x86">>

NameOrders ==
    { CanonicalOrder, <<"x86", "x64", "v3?", "v2", "v1", "notes.txt", "latest">> }

\* What cc::windows_registry::find_tool may give: no tool, a tool whose
\* environment has no INCLUDE entry, a tool whose environment has one (after
\* an entry for LIB).
CcResults ==
    { None, Some([env |-> <<>>]),
      Some([env |-> << <<"LIB", "cc-lib">>, <<"INCLUDE", "cc-include">> >>]) }

\* How Command::status() may end for a spawned tool.
SpawnResults == {"spawn-error", "exit-0", "exit-1"}

\* What INCLUDE and LIB hold when the process starts: both set (a build
\* started from a developer prompt) or neither.
PriorEnvirons ==
    { [INCLUDE |-> Some("prev-include"), LIB |-> Some("prev-lib")],
      [INCLUDE |-> None, LIB |-> None] }

\* Fixed arguments of the one compile_resource call each thread makes.
OutDir == "out"

Prefix == "app"

Resource == "app.rc"

\* ---------------------------------------------------------------- state

VARIABLES
    environ,      \* the process environment: variable name -> Option value
    registry,     \* HKEY_LOCAL_MACHINE: <<subkey, value name>> -> String
    files,        \* the regular files of the filesystem (paths)
    links,        \* the symbolic links: <<link path, target path>>
    nameOrder,    \* the order in which fs::read_dir yields names
    vswhom,       \* what VsFindResult::search() gives
    callers,      \* the threads that call compile_resource, once each
    IS_INCLUDED,  \* the static AtomicBool of include_windows_10_kits
    implRuns,     \* how many times include_windows_10_kits_impl has run
    find_tool,    \* Some(what cc's find_tool gave the body), None before it ran
    pc,           \* per thread: where its compile_resource call stands
    arch,         \* per thread: the local `arch`
    kit_root,     \* per thread: the local `kit_root` of the Windows 10 scan
    entries,      \* per thread: what is left of the fs::read_dir iterator
    found,        \* per thread: Option path, find_windows_sdk_tool_impl's value
    probes,       \* per thread: the probes run so far, in order
    spawns,       \* per thread: the processes spawned, in order
    panic         \* per thread: the panic message, "" while none

\* What no action changes but environ.
envVars == <<environ, registry, files, links, nameOrder, vswhom, callers>>

threadVars == <<pc, arch, kit_root, entries, found, probes, spawns, panic>>

vars == <<envVars, IS_INCLUDED, implRuns, find_tool, threadVars>>

\* ---------------------------------------------------------------- system

\* env::var: the value of a process environment variable, if it is set.
EnvVar(name) == environ[name]

\* RegKey::open_subkey_with_flags(..).and_then(get_value::<String>).ok()
RegValue(subkey, name) ==
    IF <<subkey, name>> \in DOMAIN registry
    THEN Some(registry[<<subkey, name>>])
    ELSE None

\* A path with the symbolic link it passes through, if any, followed.
Resolve(p) ==
    IF \E l \in links : IsPrefix(l[1], p)
    THEN LET l == CHOOSE k \in links : IsPrefix(k[1], p)
         IN l[2] \o SubSeq(p, Len(l[1]) + 1, Len(p))
    ELSE p

\* Every path at which a file or a link sits.
Objects == files \cup { l[1] : l \in links }

\* Path::is_dir (follows links): a directory is what holds a file or a link.
IsDir(p) == \E f \in Objects : IsPrefix(Resolve(p), f) /\ Len(f) > Len(Resolve(p))

\* Path::exists (follows links).
Exists(p) == Resolve(p) \in files \/ IsDir(p)

\* DirEntry::file_type (does not follow links).
FileType(p) ==
    IF \E l \in links : l[1] = p THEN "symlink"
    ELSE IF p \in files THEN "file"
    ELSE "dir"

\* The names of the entries directly under directory p.
Children(p) ==
    { q[Len(p) + 1] :
        q \in { r \in Objects : IsPrefix(p, r) /\ Len(r) > Len(p) } }

\* read_dir yielding the entries sorted by name, whatever the filesystem's
\* order.
read_dir_Sorted(p) ==
    IF ~ IsDir(p) THEN None
    ELSE LET Present(n) == n \in Children(Resolve(p))
             names == SelectSeq(CanonicalOrder, Present)
         IN Some([ i \in 1 .. Len(names) |->
                     [ file_name |-> names[i],
                       unicode |-> names[i] \notin NonUnicode,
                       file_type |-> FileType(Push(Resolve(p), <<names[i]>>)) ] ])

\* fs::read_dir(p).ok(): the entries of p in enumeration order, each with
\* its file name (an OsString, unicode or not) and its file type.
read_dir(p) ==
    IF ~ IsDir(p) THEN None
    ELSE LET Present(n) == n \in Children(Resolve(p))
             names == SelectSeq(nameOrder, Present)
         IN Some([ i \in 1 .. Len(names) |->
                     [ file_name |-> names[i],
                       unicode |-> names[i] \notin NonUnicode,
                       file_type |-> FileType(Push(Resolve(p), <<names[i]>>)) ] ])

\* Option::and_then
and_then(o, F(_)) == IF o = None THEN None ELSE F(Unwrap(o))

\* ---------------------------------------------------------------- probes

\* ArchBin with the two match arms exchanged.
ArchBin_Swapped(x86_bin, x64_bin, a) == IF a = "X86" THEN x64_bin ELSE x86_bin

\* The `match arch` of try_bin_dir_impl: the subpath pushed onto the root.
ArchBin(x86_bin, x64_bin, a) == IF a = "X86" THEN x86_bin ELSE x64_bin

try_bin_dir_impl(root_dir, x86_bin, x64_bin, a) ==
    LET dir == Push(root_dir, ArchBin(x86_bin, x64_bin, a))
    IN IF IsDir(dir) THEN Some(dir) ELSE None

try_bin_dir(root_dir, x86_bin, x64_bin, a) ==
    try_bin_dir_impl(root_dir, x86_bin, x64_bin, a)

try_tool(pb, tool) ==
    LET p == Push(pb, <<tool>>)
    IN IF Exists(p) THEN Some(p) ELSE None

\* ArchOf testing for the prefix "x86" only.
ArchOf_X86Prefix(target) ==
    IF starts_with(target, <<"x", "8", "6">>) THEN "X64" ELSE "X86"

\* The architecture find_windows_sdk_tool_impl derives from a TARGET value.
ArchOf(target) == IF starts_with(target, X86_64) THEN "X64" ELSE "X86"

\* ResolveArch with unwrap_or_default in place of expect.
ResolveArch_Default(target) == IF target = None THEN "X86" ELSE ArchOf(Unwrap(target))

\* The first statement of find_windows_sdk_tool_impl, given env::var("TARGET"):
\* `expect` panics on a variable that is not set.
ResolveArch(target) == IF target = None THEN "panic" ELSE ArchOf(Unwrap(target))

\* Windows 8 - 10
find_windows_kits_tool(key, a, tool) ==
    and_then(and_then(RegValue(InstalledRoots, key),
                      LAMBDA root_dir :
                          try_bin_dir(root_dir, <<"bin", "x86">>, <<"bin", "x64">>, a)),
             LAMBDA pb : try_tool(pb, tool))

\* Windows Vista - 7
find_latest_windows_sdk_tool(a, tool) ==
    and_then(and_then(RegValue(MicrosoftSDKs, "CurrentInstallFolder"),
                      LAMBDA root_dir :
                          try_bin_dir(root_dir, <<"Bin">>, <<"Bin", "x64">>, a)),
             LAMBDA pb : try_tool(pb, tool))

\* The SDK root of a VsFindResult::search() result, if there is one.
SdkRoot(res) == and_then(res, LAMBDA r : r.windows_sdk_root)

\* VswhomPanics with an `expect` on the SDK root itself as well.
VswhomPanics_OnMissing(res) ==
    SdkRoot(res) = None \/ FileName(Unwrap(SdkRoot(res))) = None

\* find_with_vswhom panics when the SDK root has no file name.
VswhomPanics(res) == SdkRoot(res) # None /\ FileName(Unwrap(SdkRoot(res))) = None

\* The first derivation of find_with_vswhom: <root/../..>/bin/<ver>/<arch>.
VswhomNested(res, a, tool) ==
    and_then(and_then(SdkRoot(res),
                      LAMBDA root :
                          try_bin_dir(Push(Pop(Pop(root)), <<"bin", Unwrap(FileName(root))>>),
                                      <<"x86">>, <<"x64">>, a)),
             LAMBDA pb : try_tool(pb, tool))

\* The second derivation of find_with_vswhom: <root/../..>/bin/<arch>.
VswhomFlat(res, a, tool) ==
    and_then(and_then(SdkRoot(res),
                      LAMBDA root :
                          try_bin_dir(Pop(Pop(root)), <<"bin", "x86">>, <<"bin", "x64">>, a)),
             LAMBDA pb : try_tool(pb, tool))

\* or_else preferring the alternative.
or_else_Reversed(o, alt) == IF alt # None THEN alt ELSE o

\* Option::or_else
or_else(o, alt) == IF o # None THEN o ELSE alt

find_with_vswhom(res, a, tool) ==
    or_else(VswhomNested(res, a, tool), VswhomFlat(res, a, tool))

\* ---------------------------------------------------------------- Init

\* The filesystems <<files, links>>: at most MaxObjects installations and
\* links, no link sitting where a file does.
FileSystems ==
    { <<UNION x[1], x[2]>> :
        x \in { y \in (SUBSET Installations) \X (SUBSET LinkPool) :
                  /\ Cardinality(y[1]) + Cardinality(y[2]) <= MaxObjects
                  /\ \A l \in y[2] : l[1] \notin UNION y[1] } }

\* The files are those of the Windows 10 kit (which the VS instance probe
\* reaches without the registry) and of the kits and SDKs the registry
\* names: the code never looks at a file of another.
ReadableFiles ==
    \A f \in files :
        \/ IsPrefix(RootOf("KitsRoot10"), f)
        \/ \E n \in DOMAIN registry : IsPrefix(registry[n], f)

\* The inputs under which several threads call.  The threads share
\* IS_INCLUDED and INCLUDE only, which the Windows 10 scan alone touches:
\* the scope is a 64-bit target on a machine whose registry names the
\* Windows 10 kit and no older one, which holds no files of an older one
\* (nothing would read them) and has no Visual Studio instance; what a scan
\* skips is a matter of each call alone, so the kit holds tools only, under
\* names that decode, and no links.
SharedScope ==
    /\ environ["TARGET"] = Some(X86_64 \o TripleTail)
    /\ environ["INCLUDE"] # None
    /\ DOMAIN registry = { <<InstalledRoots, "KitsRoot10">> }
    /\ \A f \in files :
           /\ IsPrefix(RootOf("KitsRoot10"), f)
           /\ f[Len(f)] = Tool
           /\ \A i \in 1 .. Len(f) : f[i] \notin NonUnicode
    /\ links = {}
    /\ vswhom = None

\* The inputs under which the process starts with INCLUDE not set.  The
\* augmentation alone touches INCLUDE, and it runs in the Windows 10 scan:
\* the scope is a 64-bit target on a machine whose registry names the
\* Windows 10 kit and which has no Visual Studio instance.
UnsetScope ==
    /\ environ["TARGET"] = Some(X86_64 \o TripleTail)
    /\ <<InstalledRoots, "KitsRoot10">> \in DOMAIN registry
    /\ vswhom = None

Init ==
    /\ \E tgt \in {None} \cup { Some(s) : s \in Targets }, prior \in PriorEnvirons :
           environ = [ n \in {"TARGET", "INCLUDE", "LIB"} |->
                         IF n = "TARGET" THEN tgt ELSE prior[n] ]
    /\ \E present \in SUBSET RegNames :
           registry = [ n \in present |-> RootOf(n[2]) ]
    /\ \E fs \in FileSystems : files = fs[1] /\ links = fs[2]
    /\ ReadableFiles
    /\ nameOrder \in NameOrders
    /\ Cardinality(Children(Push(RootOf("KitsRoot10"), <<"bin">>))) < 2
         => nameOrder = CanonicalOrder
    /\ vswhom \in VsResults
    /\ \E n \in 1 .. NThreads : callers = 1 .. n
    /\ Cardinality(callers) > 1 => SharedScope
    /\ environ["INCLUDE"] = None => UnsetScope
    /\ IS_INCLUDED = FALSE
    /\ implRuns = 0
    /\ find_tool = None
    /\ pc = [ t \in Threads |-> "idle" ]
    /\ arch = [ t \in Threads |-> "X86" ]
    /\ kit_root = [ t \in Threads |-> <<>> ]
    /\ entries = [ t \in Threads |-> <<>> ]
    /\ found = [ t \in Threads |-> None ]
    /\ probes = [ t \in Threads |-> <<>> ]
    /\ spawns = [ t \in Threads |-> <<>> ]
    /\ panic = [ t \in Threads |-> "" ]

\* ---------------------------------------------------------------- actions

\* A probe of find_windows_sdk_tool_impl's or_else chain has given `res`:
\* Some ends the chain (the value goes back to compile_resource), None
\* runs the closure of the next or_else.
Chain(t, name, res, next) ==
    /\ probes' = [probes EXCEPT ![t] = Append(@, name)]
    /\ found' = [found EXCEPT ![t] = res]
    /\ pc' = [pc EXCEPT ![t] = IF res # None THEN "spawn" ELSE next]

\* compile_resource is called and enters find_windows_sdk_tool_impl, which
\* reads TARGET (panicking when it is not set) and fixes `arch`.
Call(t) ==
    /\ pc[t] = "idle"
    /\ t \in callers
    /\ LET a == ResolveArch(EnvVar("TARGET"))
       IN IF a = "panic"
          THEN /\ panic' = [panic EXCEPT ![t] = "No TARGET env var"]
               /\ pc' = [pc EXCEPT ![t] = "panicked"]
               /\ UNCHANGED arch
          ELSE /\ arch' = [arch EXCEPT ![t] = a]
               /\ pc' = [pc EXCEPT ![t] = "KitsRoot10"]
               /\ UNCHANGED panic
    /\ UNCHANGED <<envVars, IS_INCLUDED, implRuns, find_tool, kit_root, entries, found, probes, spawns>>

\* NextKits with the last two Installed-Roots probes in the other order.
NextKits_Swapped(key) ==
    CASE key = "KitsRoot10" -> "KitsRoot"
      [] key = "KitsRoot" -> "KitsRoot81"
      [] OTHER -> "LatestSdk"

\* NextKits going from the last Installed-Roots probe straight to the
\* Windows 10 scan.
NextKits_SkipLegacy(key) ==
    CASE key = "KitsRoot10" -> "KitsRoot81"
      [] key = "KitsRoot81" -> "KitsRoot"
      [] OTHER -> "Win10Kits"

\* The three find_windows_kits_tool probes, in the order of the chain.
NextKits(key) ==
    CASE key = "KitsRoot10" -> "KitsRoot81"
      [] key = "KitsRoot81" -> "KitsRoot"
      [] OTHER -> "LatestSdk"

FindWindowsKitsTool(t) ==
    /\ pc[t] \in {"KitsRoot10", "KitsRoot81", "KitsRoot"}
    /\ Chain(t, pc[t], find_windows_kits_tool(pc[t], arch[t], Tool), NextKits(pc[t]))
    /\ UNCHANGED <<envVars, IS_INCLUDED, implRuns, find_tool, arch, kit_root, entries, spawns, panic>>

FindLatestWindowsSdkTool(t) ==
    /\ pc[t] = "LatestSdk"
    /\ Chain(t, "LatestSdk", find_latest_windows_sdk_tool(arch[t], Tool), "Win10Kits")
    /\ UNCHANGED <<envVars, IS_INCLUDED, implRuns, find_tool, arch, kit_root, entries, spawns, panic>>

\* swap storing the negation of what the flag held.
swap_Toggle(old, val) == ~ old

\* AtomicBool::swap(val, SeqCst): the value the flag holds afterwards (the
\* one it held before is what the call returns).
swap(old, val) == val

\* include_windows_10_kits without its guard: the body runs on every call.
include_windows_10_kits_Unguarded(old) == "Impl"

\* include_windows_10_kits returning early from the probe when the flag was
\* already set.
include_windows_10_kits_SkipScan(old) == IF ~ old THEN "Impl" ELSE "Vswhom"

\* include_windows_10_kits, given the value IS_INCLUDED.swap(true, SeqCst)
\* returned: where its caller goes next, into include_windows_10_kits_impl
\* or straight on to the directory scan.
include_windows_10_kits(old) == IF ~ old THEN "Impl" ELSE "ReadDir"

\* find_windows_10_kits_tool up to the end of include_windows_10_kits's
\* swap: the registry read with its `?`, then IS_INCLUDED.swap(true).
Win10KitsEnter(t) ==
    /\ pc[t] = "Win10Kits"
    /\ LET value == RegValue(InstalledRoots, "KitsRoot10")
       IN IF value = None
          THEN /\ Chain(t, "Win10Kits", None, "Vswhom")
               /\ UNCHANGED <<IS_INCLUDED, kit_root>>
          ELSE /\ kit_root' = [kit_root EXCEPT ![t] = Unwrap(value)]
               /\ IS_INCLUDED' = swap(IS_INCLUDED, TRUE)
               /\ pc' = [pc EXCEPT ![t] = include_windows_10_kits(IS_INCLUDED)]
               /\ probes' = [probes EXCEPT ![t] = Append(@, "Win10Kits")]
               /\ UNCHANGED found
    /\ UNCHANGED <<envVars, implRuns, find_tool, arch, entries, spawns, panic>>

\* The first INCLUDE entry of a tool's environment, if there is one.
FindInclude(env) ==
    LET hits == { i \in 1 .. Len(env) : env[i][1] = "INCLUDE" }
    IN IF hits = {} THEN None
       ELSE Some(env[CHOOSE i \in hits : \A j \in hits : i <= j][2])

\* include_windows_10_kits_impl leaving alone an INCLUDE that is set.
include_windows_10_kits_impl_KeepPrior(cc) ==
    LET include == and_then(cc, LAMBDA tool : FindInclude(tool.env))
    IN IF include = None \/ environ["INCLUDE"] # None THEN environ
       ELSE [environ EXCEPT !["INCLUDE"] = include]

\* The environment after include_windows_10_kits_impl, given what
\* cc::windows_registry::find_tool gave.
include_windows_10_kits_impl(cc) ==
    LET include == and_then(cc, LAMBDA tool : FindInclude(tool.env))
    IN IF include = None THEN environ
       ELSE [environ EXCEPT !["INCLUDE"] = include]

\* The body guarded by the swap: include_windows_10_kits_impl.
Impl(t) ==
    /\ pc[t] = "Impl"
    /\ implRuns' = implRuns + 1
    /\ IF EnvVar("TARGET") = None
       THEN /\ panic' = [panic EXCEPT ![t] = "No TARGET env var"]
            /\ pc' = [pc EXCEPT ![t] = "panicked"]
            /\ UNCHANGED <<environ, find_tool>>
       ELSE /\ \E cc \in CcResults :
                   /\ find_tool' = Some(cc)
                   /\ environ' = include_windows_10_kits_impl(cc)
            /\ pc' = [pc EXCEPT ![t] = "ReadDir"]
            /\ UNCHANGED panic
    /\ UNCHANGED <<registry, files, links, nameOrder, vswhom, callers, IS_INCLUDED,
                   arch, kit_root, entries, found, probes, spawns>>

\* find_windows_10_kits_tool after the guard: fs::read_dir(kit_root + "/bin")
\* with its `?`.
Win10KitsReadDir(t) ==
    /\ pc[t] = "ReadDir"
    /\ LET dir == read_dir(Push(kit_root[t], <<"bin">>))
       IN IF dir = None
          THEN /\ pc' = [pc EXCEPT ![t] = "Vswhom"]
               /\ UNCHANGED entries
          ELSE /\ entries' = [entries EXCEPT ![t] = Unwrap(dir)]
               /\ pc' = [pc EXCEPT ![t] = "Scan"]
    /\ UNCHANGED <<envVars, IS_INCLUDED, implRuns, find_tool, arch, kit_root, found, probes, spawns, panic>>

\* Whether the loop of find_windows_10_kits_tool skips (`continue`) an entry.
Skipped(entry) == ~ entry.unicode \/ entry.file_type = "file"

\* The body of the loop of find_windows_10_kits_tool for one entry: None
\* when the loop goes on, Some(rc) when it returns.
ScanEntry(root_dir, entry, a, tool) ==
    IF Skipped(entry) THEN None
    ELSE and_then(try_bin_dir(root_dir, <<entry.file_name, "x86">>,
                              <<entry.file_name, "x64">>, a),
                  LAMBDA pb : try_tool(pb, tool))

\* One turn of the loop of find_windows_10_kits_tool, or its end.
Win10KitsScan(t) ==
    /\ pc[t] = "Scan"
    /\ IF entries[t] = <<>>
       THEN /\ pc' = [pc EXCEPT ![t] = "Vswhom"]
            /\ UNCHANGED <<entries, found>>
       ELSE LET rc == ScanEntry(Push(kit_root[t], <<"bin">>), Head(entries[t]), arch[t], Tool)
            IN /\ entries' = [entries EXCEPT ![t] = Tail(@)]
               /\ found' = [found EXCEPT ![t] = rc]
               /\ pc' = [pc EXCEPT ![t] = IF rc # None THEN "spawn" ELSE "Scan"]
    /\ UNCHANGED <<envVars, IS_INCLUDED, implRuns, find_tool, arch, kit_root, probes, spawns, panic>>

\* The last probe of the chain; its value is find_windows_sdk_tool_impl's.
FindWithVswhom(t) ==
    /\ pc[t] = "Vswhom"
    /\ IF VswhomPanics(vswhom)
       THEN /\ panic' = [panic EXCEPT ![t] = "malformed vswhom-returned SDK root"]
            /\ pc' = [pc EXCEPT ![t] = "panicked"]
            /\ probes' = [probes EXCEPT ![t] = Append(@, "Vswhom")]
            /\ UNCHANGED found
       ELSE /\ Chain(t, "Vswhom", find_with_vswhom(vswhom, arch[t], Tool), "spawn")
            /\ UNCHANGED panic
    /\ UNCHANGED <<envVars, IS_INCLUDED, implRuns, find_tool, arch, kit_root, entries, spawns>>

\* Program ignoring what discovery found.
Program_Unqualified(res) == <<"rc.exe">>

\* The program compile_resource hands to Command::new.
Program(res) == IF res = None THEN <<"rc.exe">> ELSE Unwrap(res)

\* StatusPanic without the check of the exit status.
StatusPanic_IgnoreExit(status) ==
    IF status = "spawn-error" THEN "Are you sure you have RC.EXE in your $PATH?" ELSE ""

\* The panic message compile_resource ends with for a status, "" for none.
StatusPanic(status) ==
    CASE status = "spawn-error" -> "Are you sure you have RC.EXE in your $PATH?"
      [] status = "exit-1" -> "RC.EXE failed to compile specified resource file"
      [] OTHER -> ""

\* compile_resource with find_windows_sdk_tool_impl's value: the tool is
\* spawned with the process environment as it is now, and its status
\* decides between a return and one of two panics.
Spawn(t) ==
    /\ pc[t] = "spawn"
    /\ \E status \in SpawnResults :
        /\ spawns' = [spawns EXCEPT ![t] =
                        Append(@, [ program |-> Program(found[t]),
                                    args |-> <<"/fo", <<OutDir, "/", Prefix, ".lib">>,
                                               "/I", OutDir, Resource>>,
                                    environ |-> environ,
                                    implRuns |-> implRuns,
                                    status |-> status ])]
        /\ panic' = [panic EXCEPT ![t] = StatusPanic(status)]
        /\ pc' = [pc EXCEPT ![t] = IF StatusPanic(status) = "" THEN "done" ELSE "panicked"]
    /\ UNCHANGED <<envVars, IS_INCLUDED, implRuns, find_tool, arch, kit_root, entries, found, probes>>

\* A step of thread t.
Step(t) ==
    \/ Call(t)
    \/ FindWindowsKitsTool(t)
    \/ FindLatestWindowsSdkTool(t)
    \/ Win10KitsEnter(t)
    \/ Impl(t)
    \/ Win10KitsReadDir(t)
    \/ Win10KitsScan(t)
    \/ FindWithVswhom(t)
    \/ Spawn(t)

Next == \E t \in Threads : Step(t)

Spec == Init /\ [][Next]_vars

\* The scheduler lets every thread that can take a step take one: no step
\* of the code waits for another thread.
FairSpec == Spec /\ \A t \in Threads : WF_vars(Step(t))

\* ---------------------------------------------------------------- claims

\* The probes in the order the specification gives them.
ProbeOrder == <<"KitsRoot10", "KitsRoot81", "KitsRoot", "LatestSdk", "Win10Kits", "Vswhom">>

\* find_windows_sdk_tool_impl has returned to compile_resource in thread t.
Returned(t) == pc[t] = "spawn" \/ spawns[t] # <<>>

\* What the Windows 10 scan yields as a whole: the tool of the first entry
\* of <KitsRoot10>/bin, in enumeration order, that holds one.
Win10KitsYield(a) ==
    LET value == RegValue(InstalledRoots, "KitsRoot10")
        dir == and_then(value, LAMBDA root : read_dir(Push(root, <<"bin">>)))
    IN IF dir = None THEN None
       ELSE LET es == Unwrap(dir)
                root_dir == Push(Unwrap(value), <<"bin">>)
                hits == { i \in 1 .. Len(es) : ScanEntry(root_dir, es[i], a, Tool) # None }
            IN IF hits = {} THEN None
               ELSE ScanEntry(root_dir, es[CHOOSE i \in hits : \A j \in hits : i <= j], a, Tool)

\* What probe `name` yields on its own for architecture a.
Yield(name, a) ==
    CASE name \in {"KitsRoot10", "KitsRoot81", "KitsRoot"} -> find_windows_kits_tool(name, a, Tool)
      [] name = "LatestSdk" -> find_latest_windows_sdk_tool(a, Tool)
      [] name = "Win10Kits" -> Win10KitsYield(a)
      [] OTHER -> IF VswhomPanics(vswhom) THEN None ELSE find_with_vswhom(vswhom, a, Tool)

\* The positions in ProbeOrder of the probes that yield a path.
Yielding(a) == { i \in 1 .. Len(ProbeOrder) : Yield(ProbeOrder[i], a) # None }

First(S) == CHOOSE i \in S : \A j \in S : i <= j

\* C1: the probes of a call run in the fixed order KitsRoot10, KitsRoot81,
\* KitsRoot, legacy SDK, Windows 10 scan, VS instance; the call returns what
\* the first probe that yields a path yields, and has run no probe after it.
C1_FirstProbeWins ==
    \A t \in Threads :
        /\ IsPrefix(probes[t], ProbeOrder)
        /\ Returned(t) =>
             LET yielding == Yielding(arch[t])
             IN yielding # {} =>
                  /\ found[t] = Yield(ProbeOrder[First(yielding)], arch[t])
                  /\ probes[t] = SubSeq(ProbeOrder, 1, First(yielding))

\* C1 witness: a call has returned the tool of an Installed-Roots probe on a
\* machine where the legacy SDK probe yields another tool.
C1_Witness ==
    \E t \in Threads :
        /\ Returned(t)
        /\ found[t] # None
        /\ found[t] = find_windows_kits_tool("KitsRoot81", arch[t], Tool)
        /\ find_latest_windows_sdk_tool(arch[t], Tool) \notin {None, found[t]}

\* Thread t's call of find_windows_sdk_tool_impl is over: it has returned
\* or it has panicked.
Ended(t) == Returned(t) \/ pc[t] = "panicked"

\* Thread t has entered the Windows 10 scan with a readable KitsRoot10.
ReachedGuard(t) ==
    /\ RegValue(InstalledRoots, "KitsRoot10") # None
    /\ \E i \in 1 .. Len(probes[t]) : probes[t][i] = "Win10Kits"

\* C2: include_windows_10_kits_impl never runs twice, and it has run once
\* when every calling thread has reached the Windows 10 scan with a readable
\* KitsRoot10 and is through with discovery.
C2_ImplRunsOnce ==
    /\ implRuns <= 1
    /\ (\A t \in callers : Ended(t) /\ ReachedGuard(t)) => implRuns = 1

\* C2 witness: several threads have called, all went through the guard and
\* returned, and the body has run once.
C2_Witness ==
    /\ Cardinality(callers) > 1
    /\ \A t \in callers : Returned(t) /\ ReachedGuard(t)
    /\ implRuns = 1

\* C3: a call whose tool the Windows 10 scan found spawns it only after
\* include_windows_10_kits_impl has run.
C3_AugmentedBeforeSpawn ==
    \A t \in Threads :
        /\ spawns[t] # <<>>
        /\ found[t] # None
        /\ probes[t][Len(probes[t])] = "Win10Kits"
        => spawns[t][1].implRuns >= 1

\* C4: with TARGET set, no registry value and no SDK root from the VS
\* instance locator, a call does not panic in discovery, can always take
\* its next step, and returns None after all six probes.
C4_Exhaustion ==
    (EnvVar("TARGET") # None /\ DOMAIN registry = {} /\ SdkRoot(vswhom) = None) =>
        \A t \in callers :
            /\ Returned(t) => found[t] = None /\ probes[t] = ProbeOrder
            /\ ~ Returned(t) => pc[t] # "panicked" /\ ENABLED Step(t)

\* C4 witness: discovery has returned None on such a machine, which holds
\* tools all the same.
C4_Witness ==
    /\ DOMAIN registry = {}
    /\ SdkRoot(vswhom) = None
    /\ files # {}
    /\ \E t \in callers : Returned(t) /\ found[t] = None

\* C5: the only panics are the one for a missing TARGET, before any probe,
\* and the two of compile_resource after the spawn: neither the VS instance
\* probe nor the augmentation panics.
C5_BestEffortNeverPanics ==
    \A t \in Threads : pc[t] = "panicked" => probes[t] = <<>> \/ spawns[t] # <<>>

\* C6: without TARGET a call panics with the configuration error at once:
\* no probe runs, nothing is found or spawned, and IS_INCLUDED and INCLUDE
\* keep their initial values.
C6_NoTargetAborts ==
    EnvVar("TARGET") = None =>
        /\ IS_INCLUDED = FALSE
        /\ implRuns = 0
        /\ find_tool = None
        /\ \E prior \in PriorEnvirons :
               EnvVar("INCLUDE") = prior.INCLUDE /\ EnvVar("LIB") = prior.LIB
        /\ \A t \in callers :
            /\ pc[t] \in {"idle", "panicked"}
            /\ pc[t] = "idle" => ENABLED Call(t)
            /\ pc[t] = "panicked" => panic[t] = "No TARGET env var"
            /\ probes[t] = <<>> /\ found[t] = None /\ spawns[t] = <<>>

\* C6 witness: a call has panicked for want of TARGET on a machine where
\* the KitsRoot10 probe would have found a tool for either architecture.
C6_Witness ==
    /\ EnvVar("TARGET") = None
    /\ \E t \in callers : pc[t] = "panicked"
    /\ \A a \in {"X86", "X64"} : find_windows_kits_tool("KitsRoot10", a, Tool) # None

\* The string begins with the six characters x86_64.
BeginsX86_64(s) ==
    /\ Len(s) >= 6
    /\ s[1] = "x" /\ s[2] = "8" /\ s[3] = "6" /\ s[4] = "_" /\ s[5] = "6" /\ s[6] = "4"

\* C7: once a call has read TARGET its architecture is X64 if TARGET begins
\* with x86_64 and X86 if not, and the tool it finds lies under an x64
\* directory exactly in the first case.
C7_ArchFromTarget ==
    \A t \in callers :
        pc[t] # "idle" /\ EnvVar("TARGET") # None =>
            LET x64 == BeginsX86_64(Unwrap(EnvVar("TARGET")))
            IN /\ arch[t] = IF x64 THEN "X64" ELSE "X86"
               /\ found[t] # None =>
                    (x64 <=> \E i \in 1 .. Len(Unwrap(found[t])) : Unwrap(found[t])[i] = "x64")

\* C7 witness: with a TARGET one character short of x86_64 a call has found
\* a 32-bit tool.
C7_Witness ==
    /\ EnvVar("TARGET") = Some(<<"x", "8", "6", "_", "6">>)
    /\ \E t \in callers : found[t] # None /\ arch[t] = "X86"

\* C8: what is spawned is the path discovery returned, or the bare name
\* rc.exe when discovery returned None; and a call whose discovery returned
\* None goes on to spawn, panicking only if the spawned tool fails.
C8_SpawnsDiscovered ==
    \A t \in Threads :
        /\ \A i \in 1 .. Len(spawns[t]) :
               spawns[t][i].program =
                   IF found[t] = None THEN <<"rc.exe">> ELSE Unwrap(found[t])
        /\ pc[t] = "spawn" => ENABLED Spawn(t)
        /\ Returned(t) /\ found[t] = None /\ pc[t] = "panicked" =>
               spawns[t][1].status # "exit-0"

\* C8 witness: after all six probes found nothing the bare name was spawned
\* and the call returned normally.
C8_Witness ==
    \E t \in callers :
        /\ probes[t] = ProbeOrder
        /\ found[t] = None
        /\ pc[t] = "done"
        /\ spawns[t][1].program = <<"rc.exe">>

\* C9: a call spawns at most once; it returns normally exactly when the
\* tool exited with success, panics with the could-not-start message exactly
\* when the spawn failed, and with the tool-failed message exactly when the
\* tool exited with another status.
C9_SpawnOutcomes ==
    \A t \in Threads :
        /\ Len(spawns[t]) <= 1
        /\ pc[t] = "done" => spawns[t] # <<>>
        /\ spawns[t] # <<>> =>
            /\ pc[t] \in {"done", "panicked"}
            /\ pc[t] = "done" <=> spawns[t][1].status = "exit-0"
            /\ panic[t] = "Are you sure you have RC.EXE in your $PATH?"
                 <=> spawns[t][1].status = "spawn-error"
            /\ panic[t] = "RC.EXE failed to compile specified resource file"
                 <=> spawns[t][1].status = "exit-1"

\* C9 witness: a found tool ran and exited with a failure status.
C9_Witness ==
    \E t \in callers :
        /\ found[t] # None
        /\ panic[t] = "RC.EXE failed to compile specified resource file"

\* C10: any two calls of the process that are through with discovery ran
\* the same probes and ended alike, with the same value or both in a panic.
C10_Deterministic ==
    \A t, u \in callers :
        Ended(t) /\ Ended(u) =>
            /\ found[t] = found[u]
            /\ probes[t] = probes[u]
            /\ Returned(t) <=> Returned(u)

\* C10 witness: two calls have returned the tool the Windows 10 scan found,
\* one having run the augmentation, which changed INCLUDE, and the other not.
C10_Witness ==
    /\ Cardinality(callers) > 1
    /\ implRuns = 1
    /\ EnvVar("INCLUDE") = Some("cc-include")
    /\ \A t \in callers :
           Returned(t) /\ found[t] # None /\ probes[t][Len(probes[t])] = "Win10Kits"

\* The calls of try_bin_dir the code makes, as <<root_dir, x86_bin, x64_bin>>,
\* the Windows 10 scan's for every name an entry may have.
BinDirCalls ==
    { <<RootOf(k), <<"bin", "x86">>, <<"bin", "x64">>>> :
        k \in {"KitsRoot10", "KitsRoot81", "KitsRoot"} }
    \cup { <<RootOf("CurrentInstallFolder"), <<"Bin">>, <<"Bin", "x64">>>> }
    \cup { <<Push(RootOf("KitsRoot10"), <<"bin">>), <<v, "x86">>, <<v, "x64">>>> :
             v \in {"v1", "v2", "latest", "notes.txt"} }

\* Something sits at path p or below it, no link followed.
EntryAt(p) == \E o \in Objects : IsPrefix(p, o)

\* Path p, with the link on it followed, is a directory: something sits
\* below it.
DirectoryAt(p) ==
    LET q == Resolve(p) IN \E o \in Objects : IsPrefix(q, o) /\ o # q

\* Path p, with the link on it followed, is a file or a directory; a link
\* that dangles leads to neither.
ReachableAt(p) ==
    LET q == Resolve(p)
    IN /\ \E o \in Objects : IsPrefix(q, o)
       /\ \A l \in links : l[1] # q

\* try_bin_dir gives the root joined with the subpath of the architecture
\* exactly when that is a directory, whatever the other subpath is.
BinDirContract ==
    \A c \in BinDirCalls, a \in {"X86", "X64"} :
        LET sel == IF a = "X86" THEN c[2] ELSE c[3]
            want == IF DirectoryAt(Push(c[1], sel)) THEN Some(Push(c[1], sel)) ELSE None
        IN /\ try_bin_dir(c[1], c[2], c[3], a) = want
           /\ try_bin_dir(c[1], IF a = "X86" THEN c[2] ELSE <<"none">>,
                           IF a = "X64" THEN c[3] ELSE <<"none">>, a) = want

\* The directories try_tool is called with: those try_bin_dir may give.
ToolDirs ==
    { Push(c[1], c[2]) : c \in BinDirCalls } \cup { Push(c[1], c[3]) : c \in BinDirCalls }

\* The original C11 on try_tool: it gives the joined path exactly when an
\* entry of any kind sits there.
C11_ToolIffEntry ==
    \A dir \in ToolDirs :
        try_tool(dir, Tool) # None <=> EntryAt(Push(dir, <<Tool>>))

\* C11: try_bin_dir gives the root joined with the architecture's subpath
\* exactly when that path is a directory, the other subpath playing no part;
\* try_tool gives the directory joined with the name exactly when that path,
\* links followed, leads to a file or a directory (a dangling link is an
\* entry and gives nothing).  This holds of the filesystem as it is while
\* no call has begun, and no step of the program changes the filesystem or
\* the registry, so it holds throughout and a repeated call gives the same.
C11_PureProbes ==
    /\ []((\A t \in Threads : pc[t] = "idle") =>
             /\ BinDirContract
             /\ \A dir \in ToolDirs :
                    try_tool(dir, Tool) =
                        IF ReachableAt(Push(dir, <<Tool>>))
                        THEN Some(Push(dir, <<Tool>>)) ELSE None)
    /\ [][UNCHANGED <<files, links, registry, nameOrder, vswhom>>]_vars

\* C11 witness: a 64-bit call has scanned a version directory whose x64
\* subdirectory exists (try_bin_dir gave it) and whose tool is a dangling
\* link (try_tool gave nothing), and went on to the next probe.
C11_Witness ==
    \E t \in callers :
        LET bin == Push(RootOf("KitsRoot10"), <<"bin">>)
        IN /\ arch[t] = "X64"
           /\ pc[t] = "Vswhom"
           /\ probes[t][Len(probes[t])] = "Win10Kits"
           /\ try_bin_dir(bin, <<"v2", "x86">>, <<"v2", "x64">>, "X64") # None
           /\ EntryAt(Push(bin, <<"v2", "x64", Tool>>))
           /\ try_tool(Push(bin, <<"v2", "x64">>), Tool) = None

\* The toolchain result has an entry for INCLUDE in its environment.
HasInclude(cc) ==
    cc # None /\ \E i \in 1 .. Len(Unwrap(cc).env) : Unwrap(cc).env[i][1] = "INCLUDE"

\* C12: a step in which the augmentation body runs sets INCLUDE to the value
\* of the toolchain's INCLUDE entry if the toolchain was found and has one,
\* whatever INCLUDE held, and leaves it as it was if not; it changes no
\* other environment variable, and no other step changes the environment.
C12_OverwritesInclude ==
    [][ /\ implRuns' # implRuns =>
            LET cc == Unwrap(find_tool')
            IN /\ HasInclude(cc) =>
                    \E i \in 1 .. Len(Unwrap(cc).env) :
                        /\ Unwrap(cc).env[i][1] = "INCLUDE"
                        /\ environ'["INCLUDE"] = Some(Unwrap(cc).env[i][2])
               /\ ~ HasInclude(cc) => environ'["INCLUDE"] = environ["INCLUDE"]
               /\ \A n \in DOMAIN environ \ {"INCLUDE"} : environ'[n] = environ[n]
               /\ DOMAIN environ' = DOMAIN environ
        /\ implRuns' = implRuns => environ' = environ ]_vars

\* C12 witness: the body has run with a toolchain whose environment has LIB
\* and INCLUDE entries, in a process started with neither variable set:
\* INCLUDE now holds the toolchain's value and LIB is still not set.
C12_Witness ==
    /\ implRuns = 1
    /\ find_tool = Some(Some([env |-> << <<"LIB", "cc-lib">>, <<"INCLUDE", "cc-include">> >>]))
    /\ EnvVar("INCLUDE") = Some("cc-include")
    /\ EnvVar("LIB") = None

\* <KitsRoot10>/bin as the registry names it.
KitBin == Push(RootOf("KitsRoot10"), <<"bin">>)

\* The names under <KitsRoot10>/bin in the order the filesystem yields them.
BinNames ==
    LET Present(n) == \E o \in Objects : IsPrefix(Push(KitBin, <<n>>), o)
    IN SelectSeq(nameOrder, Present)

\* The tool of architecture a under the entry called n.
ToolUnder(n, a) == Push(KitBin, <<n, IF a = "X64" THEN "x64" ELSE "x86", Tool>>)

\* The entry called n has a name that decodes as text and is no regular file.
Scanned(n) == n \notin NonUnicode /\ Push(KitBin, <<n>>) \notin files

\* The scan of thread t is over.
ScanDone(t) ==
    /\ \E i \in 1 .. Len(probes[t]) : probes[t][i] = "Win10Kits"
    /\ pc[t] \notin {"Impl", "ReadDir", "Scan"}

\* What the scan of thread t returned.
ScanResult(t) ==
    IF probes[t][Len(probes[t])] = "Win10Kits" /\ pc[t] # "Vswhom" THEN found[t] ELSE None

\* The scan of thread t returned the tool under the first name that
\* satisfies Hit, leaving the names after it in the iterator, and nothing if
\* KitsRoot10 is not readable or no name satisfies Hit.
ScanGaveFirst(t, Hit(_)) ==
    LET hits == IF RegValue(InstalledRoots, "KitsRoot10") = None THEN {}
                ELSE { i \in 1 .. Len(BinNames) : Hit(BinNames[i]) }
    IN IF hits = {} THEN ScanResult(t) = None
       ELSE /\ ScanResult(t) = Some(ToolUnder(BinNames[First(hits)], arch[t]))
            /\ Len(entries[t]) = Len(BinNames) - First(hits)
            /\ \A i \in 1 .. Len(entries[t]) :
                   entries[t][i].file_name = BinNames[First(hits) + i]

\* The original C13: the scan returns the tool under the first of all the
\* entries of <KitsRoot10>/bin under which the tool exists.
C13_FirstOfAllEntries ==
    \A t \in callers :
        ScanDone(t) => ScanGaveFirst(t, LAMBDA n : Exists(ToolUnder(n, arch[t])))

\* C13: the scan returns the tool under the first entry, in the order the
\* filesystem enumerates <KitsRoot10>/bin, that is not skipped (its name
\* decodes as text and it is no regular file) and under which
\* <entry>/<arch>/<tool> exists, and has taken no entry after it from the
\* iterator; it returns nothing if KitsRoot10 is not readable, if the
\* directory cannot be read, or if no such entry holds the tool.
C13_FirstEnumerated ==
    \A t \in callers :
        ScanDone(t) =>
            ScanGaveFirst(t, LAMBDA n : Scanned(n) /\ Exists(ToolUnder(n, arch[t])))

\* C13 witness: two version directories hold the tool, the filesystem
\* yields v2 before v1, and the scan returned the tool of v2 with v1 still
\* in the iterator.
C13_Witness ==
    \E t \in callers :
        /\ found[t] = Some(ToolUnder("v2", arch[t]))
        /\ ToolUnder("v1", arch[t]) \in files
        /\ ToolUnder("v2", arch[t]) \in files
        /\ \E i \in 1 .. Len(entries[t]) : entries[t][i].file_name = "v1"

\* C14: in the scan an entry of <KitsRoot10>/bin that is no directory (a
\* regular file, a symbolic link) or whose name does not decode is skipped:
\* the loop does not pass it to try_bin_dir, and the tool the scan returns
\* does not lie under it.
C14_NonDirectoriesSkipped ==
    \A t \in callers :
        /\ pc[t] = "Scan" /\ entries[t] # <<>> =>
               LET entry == Head(entries[t])
               IN entry.file_type # "dir" \/ ~ entry.unicode => Skipped(entry)
        /\ ScanDone(t) /\ ScanResult(t) # None =>
               \E n \in Children(KitBin) :
                   /\ ScanResult(t) = Some(ToolUnder(n, arch[t]))
                   /\ n \notin NonUnicode
                   /\ FileType(Push(KitBin, <<n>>)) = "dir"

\* The directory name of architecture a.
ArchDir(a) == IF a = "X64" THEN "x64" ELSE "x86"

\* The tool of the version-nested derivation for an SDK root of at least
\* three components: <root up two levels>/bin/<final segment>/<arch>/<tool>.
NestedTool(root, a) ==
    SubSeq(root, 1, Len(root) - 2) \o <<"bin", root[Len(root)], ArchDir(a), Tool>>

\* The tool of the flat derivation: <root up two levels>/bin/<arch>/<tool>.
FlatTool(root, a) == SubSeq(root, 1, Len(root) - 2) \o <<"bin", ArchDir(a), Tool>>

\* C15: a call whose VS-instance probe has returned got, for an SDK root
\* with a final segment, the version-nested tool if that exists, else the
\* flat tool if that exists, else nothing; and nothing when the locator gave
\* no SDK root.
C15_NestedBeforeFlat ==
    \A t \in callers :
        Returned(t) /\ probes[t] = ProbeOrder =>
            IF vswhom = None \/ Unwrap(vswhom).windows_sdk_root = None
            THEN found[t] = None
            ELSE LET root == Unwrap(Unwrap(vswhom).windows_sdk_root)
                 IN Len(root) >= 3 =>
                      found[t] =
                        IF Exists(NestedTool(root, arch[t])) THEN Some(NestedTool(root, arch[t]))
                        ELSE IF Exists(FlatTool(root, arch[t])) THEN Some(FlatTool(root, arch[t]))
                        ELSE None

\* C15 witness: both derivations lead to a tool and the call returned the
\* version-nested one.
C15_Witness ==
    \E t \in callers :
        /\ Returned(t)
        /\ probes[t] = ProbeOrder
        /\ vswhom = Some([windows_sdk_root |-> Some(<<"C:", "Kits", "10", "Lib", "v1">>)])
        /\ Exists(<<"C:", "Kits", "10", "bin", ArchDir(arch[t]), Tool>>)
        /\ found[t] = Some(<<"C:", "Kits", "10", "bin", "v1", ArchDir(arch[t]), Tool>>)

\* C16: a call with TARGET set runs the probes in the fixed order, each at
\* most once, and comes to return to compile_resource what it found (a
\* path) or nothing (after all six probes).
C16_EndsFoundOrExhausted ==
    \A t \in Threads :
        /\ [](/\ IsPrefix(probes[t], ProbeOrder)
              /\ Returned(t) /\ found[t] = None => probes[t] = ProbeOrder)
        /\ (EnvVar("TARGET") # None /\ pc[t] # "idle") ~> Returned(t)

\* A call that has begun comes to an end, be it a return or a panic.
CallsEnd == \A t \in Threads : pc[t] # "idle" ~> Ended(t)

\* Thread t has gone through IS_INCLUDED.swap in include_windows_10_kits.
EnteredGuard(t) == kit_root[t] # <<>>

\* None of the four probes before the Windows 10 scan yields a tool for
\* architecture a.
EarlierYieldNothing(a) == \A i \in 1 .. 4 : Yield(ProbeOrder[i], a) = None

\* C17: a call has entered the guard exactly if it has come to the Windows
\* 10 scan, which it does when the four probes before it yielded nothing,
\* with KitsRoot10 readable; a call that an earlier probe won has left
\* IS_INCLUDED false and the body not run; the guard is entered before
\* <KitsRoot10>/bin is enumerated.
C17_GuardEntry ==
    \A t \in callers :
        /\ EnteredGuard(t) <=>
               /\ Len(probes[t]) >= 5
               /\ EarlierYieldNothing(arch[t])
               /\ RegValue(InstalledRoots, "KitsRoot10") # None
        /\ Returned(t) /\ Len(probes[t]) <= 4 =>
               /\ ~ EarlierYieldNothing(arch[t])
               /\ ~ IS_INCLUDED /\ implRuns = 0 /\ find_tool = None
        /\ pc[t] \in {"ReadDir", "Scan"} \/ entries[t] # <<>> =>
               EnteredGuard(t) /\ IS_INCLUDED

\* C17 witness: a call entered the guard, the body ran and wrote INCLUDE,
\* the scan found no tool, and the call returned nothing after all six
\* probes.
C17_Witness ==
    \E t \in callers :
        /\ EnteredGuard(t)
        /\ implRuns = 1
        /\ EnvVar("INCLUDE") = Some("cc-include")
        /\ Returned(t)
        /\ probes[t] = ProbeOrder
        /\ found[t] = None

\* C18: IS_INCLUDED starts false and no step takes it from true to false;
\* it is true once a call has entered the guard, hence before the body runs
\* and ever after, whatever the body found; the body is never run or about
\* to run a second time, so a body that found no toolchain is not retried.
C18_FlagMonotone ==
    /\ ~ IS_INCLUDED
    /\ [][IS_INCLUDED => IS_INCLUDED']_vars
    /\ [](/\ (\E t \in Threads : EnteredGuard(t)) => IS_INCLUDED
          /\ implRuns + Cardinality({ t \in Threads : pc[t] = "Impl" }) <= 1
          /\ implRuns = 1 => find_tool # None
          /\ IS_INCLUDED /\ find_tool = None => implRuns = 0)

\* C18 witness: the body ran in one call and found no toolchain (INCLUDE is
\* as it was), a second call went through the guard without running it, and
\* both have returned with the flag still set.
C18_Witness ==
    /\ Cardinality(callers) > 1
    /\ \A t \in callers : EnteredGuard(t) /\ Returned(t)
    /\ find_tool = Some(None)
    /\ implRuns = 1
    /\ IS_INCLUDED
    /\ EnvVar("INCLUDE") = Some("prev-include")

====
